---- MODULE Spec2Model ----
(***************************************************************************)
(* Model of app.py: a Streamlit script that loads a table of cities,       *)
(* offers a reference-city selector, computes percentage differences of    *)
(* Salary and COL 2023 against the reference row and builds a scatter      *)
(* plot.  Strings are sequences of code points; the numbers of the         *)
(* difference columns and of the chart are IEEE-754 binary64 values, kept  *)
(* as sign, 53-bit significand and exponent, and computed with round to    *)
(* nearest, ties to even, as numpy and pandas compute them.                *)
(***************************************************************************)
EXTENDS Integers, Sequences, FiniteSets, TLC

(***************************************************************************)
(* Natural numbers of any size: little-endian sequences of limbs below     *)
(* Base, without a leading zero limb; <<>> is zero.  They carry the        *)
(* significands of binary64, which do not fit TLC's 32-bit integers.       *)
(***************************************************************************)
Base == 2^13
LimbBits == CHOOSE n \in 1..30 : 2^n = Base

Max2(a, b) == IF a >= b THEN a ELSE b
Min2(a, b) == IF a <= b THEN a ELSE b
Abs(n) == IF n < 0 THEN -n ELSE n

RECURSIVE BNorm(_)
BNorm(a) ==
    IF a = <<>> THEN <<>>
    ELSE IF a[Len(a)] = 0 THEN BNorm(SubSeq(a, 1, Len(a) - 1))
    ELSE a

RECURSIVE BFromInt(_)
BFromInt(n) == IF n = 0 THEN <<>> ELSE <<n % Base>> \o BFromInt(n \div Base)

BLimb(a, i) == IF i >= 1 /\ i <= Len(a) THEN a[i] ELSE 0

RECURSIVE BAddC(_, _, _, _)
BAddC(a, b, i, c) ==
    IF i > Len(a) /\ i > Len(b)
    THEN (IF c = 0 THEN <<>> ELSE <<c>>)
    ELSE LET t == BLimb(a, i) + BLimb(b, i) + c
         IN  <<t % Base>> \o BAddC(a, b, i + 1, t \div Base)
BAdd(a, b) == BAddC(a, b, 1, 0)

\* a - b for a >= b
RECURSIVE BSubC(_, _, _, _)
BSubC(a, b, i, c) ==
    IF i > Len(a) THEN <<>>
    ELSE LET t == BLimb(a, i) - BLimb(b, i) - c
         IN  IF t < 0 THEN <<t + Base>> \o BSubC(a, b, i + 1, 1)
             ELSE <<t>> \o BSubC(a, b, i + 1, 0)
BSub(a, b) == BNorm(BSubC(a, b, 1, 0))

\* -1, 0, 1 as a < b, a = b, a > b
RECURSIVE BCmpAt(_, _, _)
BCmpAt(a, b, i) ==
    IF i = 0 THEN 0
    ELSE IF a[i] < b[i] THEN -1
    ELSE IF a[i] > b[i] THEN 1
    ELSE BCmpAt(a, b, i - 1)
BCmp(a, b) ==
    IF Len(a) < Len(b) THEN -1
    ELSE IF Len(a) > Len(b) THEN 1
    ELSE BCmpAt(a, b, Len(a))

\* a * k for 0 <= k < 2^17
RECURSIVE BMulC(_, _, _, _)
BMulC(a, k, i, c) ==
    IF i > Len(a) THEN BFromInt(c)
    ELSE LET t == a[i] * k + c
         IN  <<t % Base>> \o BMulC(a, k, i + 1, t \div Base)
BMulSmall(a, k) == BNorm(BMulC(a, k, 1, 0))

BShlLimbs(a, n) == IF a = <<>> THEN <<>> ELSE [i \in 1..n |-> 0] \o a

RECURSIVE BMulAt(_, _, _)
BMulAt(a, b, i) ==
    IF i > Len(b) THEN <<>>
    ELSE BAdd(BShlLimbs(BMulSmall(a, b[i]), i - 1), BMulAt(a, b, i + 1))
BMul(a, b) == BNorm(BMulAt(a, b, 1))

\* <<quotient, remainder>> of a by d, 0 < d < 2^17
RECURSIVE BDivAt(_, _, _, _)
BDivAt(a, d, i, r) ==
    IF i = 0 THEN <<<<>>, r>>
    ELSE LET t    == r * Base + a[i]
             rest == BDivAt(a, d, i - 1, t % d)
         IN  <<Append(rest[1], t \div d), rest[2]>>
BDivSmall(a, d) ==
    LET qr == BDivAt(a, d, Len(a), 0) IN <<BNorm(qr[1]), qr[2]>>

BShl(a, n) == BMulSmall(BShlLimbs(a, n \div LimbBits), 2^(n % LimbBits))
BShr(a, n) ==
    IF n \div LimbBits >= Len(a) THEN <<>>
    ELSE BDivSmall(SubSeq(a, n \div LimbBits + 1, Len(a)), 2^(n % LimbBits))[1]

RECURSIVE IntBits(_)
IntBits(n) == IF n = 0 THEN 0 ELSE 1 + IntBits(n \div 2)
\* the number of bits of a
BLen(a) == IF a = <<>> THEN 0 ELSE LimbBits * (Len(a) - 1) + IntBits(a[Len(a)])
\* bit i of a, bit 0 the lowest
BBit(a, i) == (BLimb(a, i \div LimbBits + 1) \div 2^(i % LimbBits)) % 2
\* whether one of the n lowest bits of a is set
BLowBits(a, n) == BShl(BShr(a, n), n) # a
BOdd(a) == a # <<>> /\ a[1] % 2 = 1

(***************************************************************************)
(* binary64.  A value is NaN, an infinity, or (-1)^s * m * 2^e with m a    *)
(* natural number of exactly Precision bits, or zero.  The magnitudes the  *)
(* program computes from its bounded inputs stay far inside the normal     *)
(* range, so neither overflow nor subnormal results arise.                 *)
(***************************************************************************)
Precision == 53

NaN  == [k |-> "nan"]
Inf(s) == [k |-> "inf", s |-> s]
Zero(s) == [k |-> "fin", s |-> s, m |-> <<>>, e |-> 0]
IsNaN(x) == x.k = "nan"
IsInf(x) == x.k = "inf"
IsFinite(x) == x.k = "fin"
IsZero(x) == x.k = "fin" /\ x.m = <<>>

\* (-1)^s * (n + a fraction in (0,1) when sticky) * 2^e to the nearest value,
\* ties to even; with sticky, n has more than Precision + 1 bits
RoundF(s, n, e, sticky) ==
    IF n = <<>> THEN Zero(s)
    ELSE LET len == BLen(n)
         IN  IF len <= Precision
             THEN [k |-> "fin", s |-> s, m |-> BShl(n, Precision - len),
                   e |-> e - (Precision - len)]
             ELSE LET sh   == len - Precision
                      q    == BShr(n, sh)
                      half == BBit(n, sh - 1) = 1
                      rest == sticky \/ BLowBits(n, sh - 1)
                      up   == half /\ (rest \/ BOdd(q))
                      q1   == IF up THEN BAdd(q, <<1>>) ELSE q
                  IN  IF BLen(q1) > Precision
                      THEN [k |-> "fin", s |-> s, m |-> BShr(q1, 1), e |-> e + sh + 1]
                      ELSE [k |-> "fin", s |-> s, m |-> q1, e |-> e + sh]

\* float(n) of an integer
FFromInt(n) == RoundF(IF n < 0 THEN 1 ELSE 0, BFromInt(Abs(n)), 0, FALSE)

FNeg(x) ==
    IF IsNaN(x) THEN x
    ELSE IF IsInf(x) THEN Inf(1 - x.s)
    ELSE [x EXCEPT !.s = 1 - x.s]

\* x + y
FAdd(x, y) ==
    IF IsNaN(x) \/ IsNaN(y) THEN NaN
    ELSE IF IsInf(x) /\ IsInf(y) THEN (IF x.s = y.s THEN x ELSE NaN)
    ELSE IF IsInf(x) THEN x
    ELSE IF IsInf(y) THEN y
    ELSE IF IsZero(x) /\ IsZero(y) THEN Zero(IF x.s = 1 /\ y.s = 1 THEN 1 ELSE 0)
    ELSE IF IsZero(x) THEN y
    ELSE IF IsZero(y) THEN x
    ELSE LET e  == Min2(x.e, y.e)
             nx == BShl(x.m, x.e - e)
             ny == BShl(y.m, y.e - e)
             c  == BCmp(nx, ny)
         IN  IF x.s = y.s THEN RoundF(x.s, BAdd(nx, ny), e, FALSE)
             ELSE IF c = 0 THEN Zero(0)
             ELSE IF c > 0 THEN RoundF(x.s, BSub(nx, ny), e, FALSE)
             ELSE RoundF(y.s, BSub(ny, nx), e, FALSE)

FSub(x, y) == FAdd(x, FNeg(y))

\* x * y
FMul(x, y) ==
    IF IsNaN(x) \/ IsNaN(y) THEN NaN
    ELSE IF IsInf(x) \/ IsInf(y)
         THEN (IF IsZero(x) \/ IsZero(y) THEN NaN ELSE Inf((x.s + y.s) % 2))
    ELSE IF IsZero(x) \/ IsZero(y) THEN Zero((x.s + y.s) % 2)
    ELSE RoundF((x.s + y.s) % 2, BMul(x.m, y.m), x.e + y.e, FALSE)

\* FDivInt with a zero divisor guarded: the quotient clamped to 0
FDivIntClamped(x, d) ==
    LET sd == IF d < 0 THEN 1 ELSE 0
    IN  IF d = 0 THEN Zero(0)
        ELSE IF IsNaN(x) THEN NaN
        ELSE IF IsInf(x) THEN Inf((x.s + sd) % 2)
        ELSE IF IsZero(x) THEN Zero((x.s + sd) % 2)
        ELSE LET qr == BDivSmall(BShl(x.m, 2 * LimbBits), Abs(d))
             IN  RoundF((x.s + sd) % 2, qr[1], x.e - 2 * LimbBits, qr[2] # 0)

\* x / d for an integer d, |d| < 2^17: 0/0 is NaN, x/0 an infinity
FDivInt(x, d) ==
    LET sd == IF d < 0 THEN 1 ELSE 0
    IN  IF IsNaN(x) THEN NaN
        ELSE IF IsInf(x) THEN Inf((x.s + sd) % 2)
        ELSE IF d = 0 THEN (IF IsZero(x) THEN NaN ELSE Inf(x.s))
        ELSE IF IsZero(x) THEN Zero((x.s + sd) % 2)
        ELSE LET qr == BDivSmall(BShl(x.m, 2 * LimbBits), Abs(d))
             IN  RoundF((x.s + sd) % 2, qr[1], x.e - 2 * LimbBits, qr[2] # 0)

\* x < y; FALSE when either is NaN
FLt(x, y) ==
    IF IsNaN(x) \/ IsNaN(y) THEN FALSE
    ELSE IF IsZero(x) /\ IsZero(y) THEN FALSE
    ELSE LET neg(v)  == v.s = 1 /\ ~IsZero(v)
             \* |u| < |v|
             below(u, v) ==
                 IF IsInf(u) THEN FALSE
                 ELSE IF IsInf(v) THEN TRUE
                 ELSE IF IsZero(u) THEN ~IsZero(v)
                 ELSE IF IsZero(v) THEN FALSE
                 ELSE u.e < v.e \/ (u.e = v.e /\ BCmp(u.m, v.m) < 0)
         IN  IF neg(x) /\ ~neg(y) THEN TRUE
             ELSE IF ~neg(x) /\ neg(y) THEN FALSE
             ELSE IF neg(x) THEN below(y, x)
             ELSE below(x, y)

(***************************************************************************)
(* Strings: sequences of code points, compared as Python compares str.     *)
(***************************************************************************)
IsLower(c) == c \in 97..122
IsUpper(c) == c \in 65..90
\* str.strip() with no argument removes these (of the ASCII range)
IsSpace(c) == c = 32 \/ c \in 9..13 \/ c \in 28..31

RECURSIVE LStrip(_)
LStrip(s) ==
    IF s # <<>> /\ IsSpace(s[1]) THEN LStrip(SubSeq(s, 2, Len(s))) ELSE s
RECURSIVE RStrip(_)
RStrip(s) ==
    IF s # <<>> /\ IsSpace(s[Len(s)]) THEN RStrip(SubSeq(s, 1, Len(s) - 1)) ELSE s
\* str.strip()
Strip(s) == RStrip(LStrip(s))

\* str.title(): a cased character is upper-cased after an uncased one (or at
\* the start) and lower-cased after a cased one
RECURSIVE TitleFrom(_, _, _)
TitleFrom(s, i, cased) ==
    IF i > Len(s) THEN <<>>
    ELSE LET c == s[i]
         IN  IF IsLower(c)
             THEN <<IF cased THEN c ELSE c - 32>> \o TitleFrom(s, i + 1, TRUE)
             ELSE IF IsUpper(c)
             THEN <<IF cased THEN c + 32 ELSE c>> \o TitleFrom(s, i + 1, TRUE)
             ELSE <<c>> \o TitleFrom(s, i + 1, FALSE)
Title(s) == TitleFrom(s, 1, FALSE)

\* x.split(',')[0]
RECURSIVE SplitFirst(_)
SplitFirst(s) ==
    IF s = <<>> \/ s[1] = 44 THEN <<>>
    ELSE <<s[1]>> \o SplitFirst(SubSeq(s, 2, Len(s)))

\* str(n) of an integer
RECURSIVE Digits(_)
Digits(n) == IF n < 10 THEN <<48 + n>> ELSE Append(Digits(n \div 10), 48 + (n % 10))
IntStr(n) == IF n < 0 THEN <<45>> \o Digits(-n) ELSE Digits(n)

\* a < b for str
RECURSIVE StrLtAt(_, _, _)
StrLtAt(a, b, i) ==
    IF i > Len(b) THEN FALSE
    ELSE IF i > Len(a) THEN TRUE
    ELSE IF a[i] # b[i] THEN a[i] < b[i]
    ELSE StrLtAt(a, b, i + 1)
StrLt(a, b) == StrLtAt(a, b, 1)

\* sorted(S) of a set of str
RECURSIVE Sorted(_)
Sorted(S) ==
    IF S = {} THEN <<>>
    ELSE LET m == CHOOSE x \in S : \A y \in S : ~StrLt(y, x)
         IN  <<m>> \o Sorted(S \ {m})

\* list.index(x) for x in list, counted from 0
Index(list, x) == (CHOOSE i \in 1..Len(list) : list[i] = x /\ \A j \in 1..(i - 1) : list[j] # x) - 1
Range(f) == {f[i] : i \in DOMAIN f}

(***************************************************************************)
(* The sheet "City" of Col_Sal_Cities_US_Can.xlsx as pd.read_excel returns *)
(* it: a sequence of rows.  A City cell is empty (NaN), text, or a number. *)
(***************************************************************************)
NaNCell == [t |-> "nan"]
Text(s) == [t |-> "str", v |-> s]
Number(n) == [t |-> "int", v |-> n]
\* astype(str) of a cell that is not NaN
AsStr(cell) == IF cell.t = "int" THEN IntStr(cell.v) ELSE cell.v

\* the value of st.selectbox with no options, and of a name that is not there
None == <<-1>>
\* the DataFrame columns the script adds
NoColumn == <<>>

\* load_data(): the table read, cleaned
load_data(sheet) ==
    LET kept == SelectSeq(sheet, LAMBDA row : row.City # NaNCell)
        city == [i \in 1..Len(kept) |-> Title(Strip(AsStr(kept[i].City)))]
    IN  [City       |-> city,
         City_Short |-> [i \in 1..Len(kept) |-> SplitFirst(city[i])],
         Salary     |-> [i \in 1..Len(kept) |-> kept[i].Salary],
         COL        |-> [i \in 1..Len(kept) |-> kept[i].COL],
         Sal_Diff   |-> NoColumn,
         Col_Diff   |-> NoColumn]

default_city == <<83, 97, 110, 32, 68, 105, 101, 103, 111, 44, 32, 67, 97, 44, 32,
                  85, 110, 105, 116, 101, 100, 32, 83, 116, 97, 116, 101, 115>>
\* sorted(data['City'].unique())
CityOptions(data) == Sorted(Range(data.City))
\* DefaultIndex without the search for default_city
DefaultIndexZero(city_options) == 0
DefaultIndex(city_options) ==
    IF default_city \in Range(city_options) THEN Index(city_options, default_city) ELSE 0

\* the rows whose City equals the reference
Matches(data, reference) == {i \in 1..Len(data.City) : data.City[i] = reference}
\* RefRow with iloc[-1]: the last such row
RefRowLast(data, reference) ==
    LET rows == Matches(data, reference)
    IN  IF rows = {} THEN 0 ELSE CHOOSE i \in rows : \A j \in rows : i >= j
\* RefRow falling back to the first row of the table when no row matches
RefRowOrFirst(data, reference) ==
    LET rows == Matches(data, reference)
    IN  IF rows = {} THEN (IF data.City = <<>> THEN 0 ELSE 1)
        ELSE CHOOSE i \in rows : \A j \in rows : i <= j
\* data[data['City'] == reference_city].iloc[0]: the first such row; 0 stands
\* for the IndexError iloc[0] raises when there is none
RefRow(data, reference) ==
    LET rows == Matches(data, reference)
    IN  IF rows = {} THEN 0 ELSE CHOOSE i \in rows : \A j \in rows : i <= j

\* PctDiff dividing by the row's own value
PctDiffOwnBase(x, ref) == FMul(FDivInt(FFromInt(x - ref), x), FFromInt(100))
\* ((x - ref) / ref) * 100 on int64 columns: the difference is exact, the
\* true division and the product are binary64 operations
PctDiff(x, ref) == FMul(FDivInt(FFromInt(x - ref), ref), FFromInt(100))

\* calculate_differences assigning the columns only where the table has none
calculate_differences_once(data, reference) ==
    LET r == RefRow(data, reference)
    IN  [raised |-> r = 0,
         data   |-> IF r = 0 \/ data.Sal_Diff # NoColumn THEN data
                    ELSE [data EXCEPT
                            !.Sal_Diff = [i \in 1..Len(data.Salary) |->
                                            PctDiff(data.Salary[i], data.Salary[r])],
                            !.Col_Diff = [i \in 1..Len(data.COL) |->
                                            PctDiff(data.COL[i], data.COL[r])]]]
\* calculate_differences(data, reference_city): the DataFrame it returns, which
\* is the one passed in, with both columns assigned
calculate_differences(data, reference) ==
    LET r == RefRow(data, reference)
    IN  [raised |-> r = 0,
         data   |-> IF r = 0 THEN data
                    ELSE [data EXCEPT
                            !.Sal_Diff = [i \in 1..Len(data.Salary) |->
                                            PctDiff(data.Salary[i], data.Salary[r])],
                            !.Col_Diff = [i \in 1..Len(data.COL) |->
                                            PctDiff(data.COL[i], data.COL[r])]]]

\* Series.min() and Series.max(): NaN is skipped, and is the result when
\* nothing else is there
RECURSIVE MinFrom(_, _, _)
MinFrom(col, i, best) ==
    IF i > Len(col) THEN best
    ELSE IF IsNaN(col[i]) THEN MinFrom(col, i + 1, best)
    ELSE IF IsNaN(best) \/ FLt(col[i], best) THEN MinFrom(col, i + 1, col[i])
    ELSE MinFrom(col, i + 1, best)
RECURSIVE MaxFrom(_, _, _)
MaxFrom(col, i, best) ==
    IF i > Len(col) THEN best
    ELSE IF IsNaN(col[i]) THEN MaxFrom(col, i + 1, best)
    ELSE IF IsNaN(best) \/ FLt(best, col[i]) THEN MaxFrom(col, i + 1, col[i])
    ELSE MaxFrom(col, i + 1, best)
SeriesMin(col) == MinFrom(col, 1, NaN)
SeriesMax(col) == MaxFrom(col, 1, NaN)

\* the literal 0.1
Tenth == FDivInt(FFromInt(1), 10)
\* the number of gridline divisions of an axis
TickDivisions == 5
\* dtick of an axis whose data span lo..hi
TickSpacing(lo, hi) == FDivInt(FSub(hi, lo), TickDivisions)
\* the end points of the benchmark line
BenchmarkExtent == 1000

\* create_scatter_plot(data, reference_city): the figure
create_scatter_plot(data, reference) ==
    LET x_min == SeriesMin(data.Col_Diff)
        x_max == SeriesMax(data.Col_Diff)
        y_min == SeriesMin(data.Sal_Diff)
        y_max == SeriesMax(data.Sal_Diff)
        x_margin == FMul(FSub(x_max, x_min), Tenth)
        y_margin == FMul(FSub(y_max, y_min), Tenth)
        x_range == <<FSub(x_min, x_margin), FAdd(x_max, x_margin)>>
        y_range == <<FSub(y_min, y_margin), FAdd(y_max, y_margin)>>
    IN  [title     |-> reference,
         x         |-> data.Col_Diff,
         y         |-> data.Sal_Diff,
         text      |-> data.City_Short,
         hover     |-> data.City,
         benchmark |-> [x0 |-> -BenchmarkExtent, x1 |-> BenchmarkExtent,
                        y0 |-> -BenchmarkExtent, y1 |-> BenchmarkExtent],
         vline     |-> [x0 |-> 0, x1 |-> 0, y0 |-> y_range[1], y1 |-> y_range[2]],
         hline     |-> [x0 |-> x_range[1], x1 |-> x_range[2], y0 |-> 0, y1 |-> 0],
         xaxis     |-> [range |-> x_range, dtick |-> TickSpacing(x_min, x_max)],
         yaxis     |-> [range |-> y_range, dtick |-> TickSpacing(y_min, y_max)]]

(***************************************************************************)
(* The sheets the model runs the script on.                                *)
(***************************************************************************)
\* rows of a sheet
MaxRows == 2
\* characters of a City cell drawn from Alphabet
MaxLen == 3
\* runs of the script in one session: the first and one per selector change
MaxRuns == 3

SeqsUpTo(S, n) == UNION {[1..k -> S] : k \in 0..n}
\* ' ', ',', 'a', 'B'
Alphabet == {32, 44, 97, 66}
\* " san diego, CA, united states"
DefaultRaw == <<32, 115, 97, 110, 32, 100, 105, 101, 103, 111, 44, 32, 67, 65, 44, 32,
                117, 110, 105, 116, 101, 100, 32, 115, 116, 97, 116, 101, 115>>
\* <<Salary, COL 2023>> of a row: equal and different figures, a salary whose
\* difference is not a binary64 value, a zero salary, a zero cost of living
Figures == {<<100, 100>>, <<130, 110>>, <<107, 100>>, <<0, 100>>, <<100, 0>>}
\* sheets of cities "a" and "b" with these figures
NumRows == {[City |-> Text(c), Salary |-> f[1], COL |-> f[2]] :
                c \in {<<97>>, <<98>>}, f \in Figures}
\* sheets of one salary and cost of living whose City cells need cleaning:
\* empty, a number, blank, duplicates after cleaning, commas, the default city
Cells == {NaNCell, Number(7), Text(<<32>>), Text(<<97>>), Text(<<97, 32>>),
          Text(<<66, 44, 97>>), Text(DefaultRaw)}
CellRows == [City : Cells, Salary : {100}, COL : {100}]
\* one-row sheets of every text of MaxLen characters at most
TextRows == [City : {Text(s) : s \in SeqsUpTo(Alphabet, MaxLen) \ {<<>>}},
             Salary : {100}, COL : {100}]
Sheets == SeqsUpTo(NumRows, MaxRows) \cup SeqsUpTo(CellRows, MaxRows)
              \cup [1..1 -> TextRows]

(***************************************************************************)
(* The state of one Streamlit process with one browser session.            *)
(***************************************************************************)
VARIABLES
    source,          \* the sheet in the file
    cache,           \* st.cache_data's entry for load_data: <<>> or <<value>>
    widget,          \* the selectbox's value in the session: None until changed
    pc,              \* where the script run is
    data,            \* the script's variables
    city_options,
    reference_city,
    scatter_plot,
    page,            \* what the browser shows: the chart, an exception
    count,           \* how often the file was read, the script ran, and each
                     \* of lines 61, 151 and 152 was executed
    trail            \* the last three calls of calculate_differences that
                     \* returned: the reference and the columns assigned

vars == <<source, cache, widget, pc, data, city_options, reference_city,
          scatter_plot, page, count, trail>>

\* a script variable not assigned yet; no chart on the page
Unset == [unset |-> TRUE]

Init ==
    /\ source \in Sheets
    /\ cache = <<>>
    /\ widget = None
    /\ pc = "load"
    /\ data = Unset
    /\ city_options = <<>>
    /\ reference_city = None
    /\ scatter_plot = Unset
    /\ page = [chart |-> Unset, exception |-> FALSE]
    /\ count = [reads |-> 0, runs |-> 1, calcs |-> 0, builds |-> 0, shows |-> 0]
    /\ trail = <<>>

\* load_data without @st.cache_data
CacheMissAlways(entry) == TRUE
\* @st.cache_data: the body of load_data runs, and reads the file, only
\* when the cache holds no entry for it
CacheMiss(entry) == entry = <<>>

\* line 23, data = load_data(): st.cache_data hands out a copy of its entry
LoadData ==
    /\ pc = "load"
    /\ IF CacheMiss(cache)
       THEN /\ cache' = <<load_data(source)>>
            /\ count' = [count EXCEPT !.reads = @ + 1]
       ELSE UNCHANGED <<cache, count>>
    /\ data' = cache'[1]
    /\ pc' = "select"
    /\ UNCHANGED <<source, widget, city_options, reference_city, scatter_plot, page,
                   trail>>

\* SelectboxValue starting at default_city whether it is an option or not
SelectboxValueDefault(options, index, chosen) ==
    IF chosen # None THEN chosen
    ELSE IF options = <<>> THEN None
    ELSE default_city
\* the value st.selectbox(options, index) returns: the session's value once the
\* user has chosen one, before that options[index], and None without options
SelectboxValue(options, index, chosen) ==
    IF chosen # None THEN chosen
    ELSE IF options = <<>> THEN None
    ELSE options[index + 1]

\* lines 42-52
Selectbox ==
    /\ pc = "select"
    /\ city_options' = CityOptions(data)
    /\ reference_city' =
           SelectboxValue(city_options', DefaultIndex(city_options'), widget)
    /\ pc' = "calc"
    /\ UNCHANGED <<source, cache, widget, data, scatter_plot, page, count, trail>>

LastThree(s) == IF Len(s) > 3 THEN SubSeq(s, Len(s) - 2, Len(s)) ELSE s

\* line 61, data = calculate_differences(data, reference_city): an exception
\* ends the run, and the page shows it in place of what the run did not emit
CalculateStep ==
    /\ pc = "calc"
    /\ LET result == calculate_differences(data, reference_city)
       IN  IF result.raised
           THEN /\ pc' = "error"
                /\ page' = [chart |-> Unset, exception |-> TRUE]
                /\ UNCHANGED <<data, trail>>
           ELSE /\ pc' = "plot"
                /\ data' = result.data
                /\ trail' = LastThree(Append(trail,
                                 [reference |-> reference_city,
                                  Sal_Diff  |-> result.data.Sal_Diff,
                                  Col_Diff  |-> result.data.Col_Diff]))
                /\ page' = page
    /\ UNCHANGED <<source, cache, widget, city_options, reference_city, scatter_plot>>

\* line 151, scatter_plot = create_scatter_plot(data, reference_city)
CreatePlotStep ==
    /\ pc = "plot"
    /\ scatter_plot' = create_scatter_plot(data, reference_city)
    /\ pc' = "show"
    /\ UNCHANGED <<source, cache, widget, data, city_options, reference_city, page,
                   trail>>

\* line 152, st.plotly_chart(scatter_plot)
PlotlyChartStep ==
    /\ pc = "show"
    /\ page' = [chart |-> scatter_plot, exception |-> FALSE]
    /\ pc' = "done"
    /\ UNCHANGED <<source, cache, widget, data, city_options, reference_city,
                   scatter_plot, trail>>

Calculate == CalculateStep /\ count' = [count EXCEPT !.calcs = @ + 1]
CreatePlot == CreatePlotStep /\ count' = [count EXCEPT !.builds = @ + 1]
PlotlyChart == PlotlyChartStep /\ count' = [count EXCEPT !.shows = @ + 1]

\* the user picks another option: Streamlit runs the script again from the
\* top, with fresh variables, the page as it is until the run replaces it
ChangeSelection ==
    /\ pc = "done"
    /\ count.runs < MaxRuns
    /\ \E c \in Range(city_options) \ {reference_city} :
           widget' = c
    /\ pc' = "load"
    /\ data' = Unset
    /\ city_options' = <<>>
    /\ reference_city' = None
    /\ scatter_plot' = Unset
    /\ count' = [count EXCEPT !.runs = @ + 1]
    /\ UNCHANGED <<source, cache, page, trail>>

Next ==
    \/ LoadData
    \/ Selectbox
    \/ Calculate
    \/ CreatePlot
    \/ PlotlyChart
    \/ ChangeSelection

Spec == Init /\ [][Next]_vars

(***************************************************************************)
(* calculate_differences and create_scatter_plot called as functions, any  *)
(* number of times on one loaded table and with any name, a city of the    *)
(* table or not: lines 61 to 152 without the selectbox in front.           *)
(***************************************************************************)
\* "Z", a name of no row
Stranger == <<90>>

\* sheets of cities "a" and "b": equal and different figures, a zero salary
CallRows == {[City |-> Text(c), Salary |-> f[1], COL |-> f[2]] :
                 c \in {<<97>>, <<98>>},
                 f \in {<<100, 100>>, <<130, 110>>, <<0, 100>>}}

InitCall ==
    /\ source \in SeqsUpTo(CallRows, MaxRows)
    /\ cache = <<load_data(source)>>
    /\ widget = None
    /\ pc = "ready"
    /\ data = cache[1]
    /\ city_options = CityOptions(data)
    /\ reference_city = None
    /\ scatter_plot = Unset
    /\ page = [chart |-> Unset, exception |-> FALSE]
    /\ count = [reads |-> 1, runs |-> 1, calcs |-> 0, builds |-> 0, shows |-> 0]
    /\ trail = <<>>

\* the next cycle starts, on the table as the last one left it
Call ==
    /\ pc \in {"ready", "done", "error"}
    /\ \E name \in Range(data.City) \cup {Stranger, None} :
           reference_city' = name
    /\ pc' = "calc"
    /\ scatter_plot' = Unset
    /\ UNCHANGED <<source, cache, widget, data, city_options, page, count, trail>>

CallCalculate == CalculateStep /\ UNCHANGED count
CallCreatePlot == CreatePlotStep /\ UNCHANGED count
CallPlotlyChart == PlotlyChartStep /\ UNCHANGED count

NextCall ==
    \/ Call
    \/ CallCalculate
    \/ CallCreatePlot
    \/ CallPlotlyChart

SpecCall == InitCall /\ [][NextCall]_vars

(***************************************************************************)
(* Properties.                                                             *)
(***************************************************************************)
\* calculate_differences has returned in this cycle
Computed == pc \in {"plot", "show", "done"}
\* create_scatter_plot has returned in this cycle
Built == pc \in {"show", "done"}
Rows == 1..Len(data.City)
\* the first row whose City is name
FirstNamed(name) ==
    CHOOSE i \in Rows : data.City[i] = name /\ \A j \in 1..(i - 1) : data.City[j] # name
CityA == <<65>>
CityB == <<66>>

\* d is 100 * num / den up to the rounding of the binary64 operations:
\* |d - 100 * num / den| <= 2^-51 * |100 * num / den|, for den > 0
WithinRounding(d, num, den) ==
    IF num = 0 THEN IsZero(d)
    ELSE /\ IsFinite(d)
         /\ ~IsZero(d)
         /\ d.s = (IF num < 0 THEN 1 ELSE 0)
         /\ LET a    == BShl(BMulSmall(d.m, den), Max2(d.e, 0))
                b    == BShl(BFromInt(100 * Abs(num)), Max2(-d.e, 0))
                diff == IF BCmp(a, b) >= 0 THEN BSub(a, b) ELSE BSub(b, a)
            IN  BCmp(BShl(diff, Precision - 2), b) <= 0
\* d is the binary64 value of 100 * num / den, the formula evaluated as
\* written: the product is exact and the quotient rounded once
AsWritten(d, num, den) == d = FDivInt(FFromInt(100 * num), den)
\* the sheet {A: 100, 100; B: 130, 110} with reference A
Scenario ==
    /\ data.City = <<CityA, CityB>>
    /\ data.Salary = <<100, 130>>
    /\ data.COL = <<100, 110>>
    /\ reference_city = CityA

\* C1 as stated: after calculate_differences with a reference row of non-zero
\* salary and cost of living, every row's Sal_Diff_% is 100 * (salary - ref
\* salary) / ref salary and its Col_Diff_% is 100 * (col - ref col) / ref col.
C1_AsStated ==
    Computed =>
        LET r == FirstNamed(reference_city)
        IN  (data.Salary[r] # 0 /\ data.COL[r] # 0) =>
                \A i \in Rows :
                    /\ AsWritten(data.Sal_Diff[i], data.Salary[i] - data.Salary[r],
                                 data.Salary[r])
                    /\ AsWritten(data.Col_Diff[i], data.COL[i] - data.COL[r], data.COL[r])

\* C1 amended: after calculate_differences with a reference row (the first row
\* named R) of non-zero salary and cost of living, every row's Sal_Diff_% is
\* the binary64 value of ((salary - ref salary) / ref salary) * 100, the
\* quotient rounded and then the product rounded, which lies within 2^-51 of
\* 100 * (salary - ref salary) / ref salary, relatively; likewise Col_Diff_%.
\* In the scenario B gets exactly 30.0 and 10.0 and lies above the diagonal.
C1_Differences ==
    Computed =>
        LET r == FirstNamed(reference_city)
        IN  (data.Salary[r] # 0 /\ data.COL[r] # 0) =>
                /\ \A i \in Rows :
                       /\ WithinRounding(data.Sal_Diff[i],
                                         data.Salary[i] - data.Salary[r], data.Salary[r])
                       /\ WithinRounding(data.Col_Diff[i],
                                         data.COL[i] - data.COL[r], data.COL[r])
                       /\ data.Sal_Diff[i] =
                              FMul(FDivInt(FFromInt(data.Salary[i] - data.Salary[r]),
                                           data.Salary[r]), FFromInt(100))
                       /\ data.Col_Diff[i] =
                              FMul(FDivInt(FFromInt(data.COL[i] - data.COL[r]),
                                           data.COL[r]), FFromInt(100))
                /\ Scenario =>
                       /\ data.Sal_Diff[2] = FFromInt(30)
                       /\ data.Col_Diff[2] = FFromInt(10)
                       /\ FLt(data.Col_Diff[2], data.Sal_Diff[2])
\* the scenario's differences are computed and shown
C1_Witness == pc = "done" /\ Scenario /\ ~IsZero(data.Sal_Diff[2])

\* C2 as stated: after calculate_differences with any valid reference, the
\* reference row has Sal_Diff_% == 0 and Col_Diff_% == 0.
C2_AsStated ==
    Computed =>
        LET r == FirstNamed(reference_city)
        IN  IsZero(data.Sal_Diff[r]) /\ IsZero(data.Col_Diff[r])

\* C2 amended: after calculate_differences with a valid reference, the reference
\* row (the first row named R) has Sal_Diff_% == 0 when its salary is not zero
\* and NaN when it is, and Col_Diff_% == 0 when its cost of living is not zero
\* and NaN when it is; with both zero differences it lies on the lines x = 0,
\* y = 0 and y = x.
C2_ReferenceRow ==
    Computed =>
        LET r == FirstNamed(reference_city)
            x == data.Col_Diff[r]
            y == data.Sal_Diff[r]
        IN  /\ IF data.Salary[r] # 0 THEN IsZero(y) ELSE IsNaN(y)
            /\ IF data.COL[r] # 0 THEN IsZero(x) ELSE IsNaN(x)
            /\ (data.Salary[r] # 0 /\ data.COL[r] # 0) =>
                   ~FLt(x, y) /\ ~FLt(y, x) /\ x = FFromInt(0) /\ y = FFromInt(0)
\* a reference with two rows of its name and different salaries: the first is
\* the reference row, at the origin
C2_Witness ==
    /\ pc = "done"
    /\ Cardinality(Matches(data, reference_city)) = 2
    /\ LET r == FirstNamed(reference_city)
       IN  /\ data.Salary[r] # 0
           /\ data.COL[r] # 0
           /\ \E i \in Matches(data, reference_city) : ~IsZero(data.Sal_Diff[i])

\* C3: the difference columns depend only on the loaded Salary and COL values
\* and on the last reference: two calls with the same reference assign the
\* same columns whatever was called between them (R, R', R gives what R gave),
\* and the columns are those a call on the freshly loaded table assigns; the
\* loaded Salary and COL columns are never changed.
C3_LastReferenceOnly ==
    /\ \A i, j \in DOMAIN trail :
           trail[i].reference = trail[j].reference => trail[i] = trail[j]
    /\ Computed =>
           LET fresh == calculate_differences(cache[1], reference_city).data
           IN  /\ data.Salary = cache[1].Salary
               /\ data.COL = cache[1].COL
               /\ data.Sal_Diff = fresh.Sal_Diff
               /\ data.Col_Diff = fresh.Col_Diff
\* the calls R, R', R were made, R' assigning other columns than R
C3_Witness ==
    /\ Len(trail) = 3
    /\ pc = "done"
    /\ trail[1].reference = trail[3].reference
    /\ trail[2].reference # trail[1].reference
    /\ trail[2].Sal_Diff # trail[1].Sal_Diff

\* C4: the file is read at most once; in each run of the script, the first and
\* the one each selector change triggers, calculate_differences, then
\* create_scatter_plot, then st.plotly_chart are executed once each, on the
\* newly selected city and the table just recomputed; when the run is over the
\* page shows that chart, whose title names the selected city.
C4_Cycle ==
    /\ count.reads <= 1
    /\ (cache # <<>>) => count.reads = 1
    /\ count.shows <= count.builds
    /\ count.builds <= count.calcs
    /\ count.calcs <= count.runs
    /\ count.runs <= count.shows + 1
    /\ pc \in {"load", "select", "calc"} => count.calcs = count.runs - 1
    /\ pc = "plot" => count.calcs = count.runs /\ count.builds = count.runs - 1
    /\ pc = "show" => count.builds = count.runs /\ count.shows = count.runs - 1
    /\ Computed => data.Sal_Diff = calculate_differences(cache[1], reference_city).data.Sal_Diff
    /\ Built =>
           /\ scatter_plot.title = reference_city
           /\ scatter_plot.x = data.Col_Diff
           /\ scatter_plot.y = data.Sal_Diff
    /\ pc = "done" =>
           /\ count.calcs = count.runs
           /\ count.builds = count.runs
           /\ count.shows = count.runs
           /\ page.chart = scatter_plot
           /\ page.chart.title = reference_city
           /\ widget # None => page.chart.title = widget
\* the second selector change has been served
C4_Witness ==
    /\ pc = "done"
    /\ count = [reads |-> 1, runs |-> 3, calcs |-> 3, builds |-> 3, shows |-> 3]
    /\ page.chart.title = widget

\* C5: the selectbox offers the distinct City values of the loaded table in
\* ascending order; its first value is default_city when that is an option
\* and the first option otherwise, and the selectbox raises nothing (a run
\* fails only for a table without any city, at line 61).
C5_Selector ==
    pc \in {"calc", "plot", "show", "done", "error"} =>
        /\ Range(city_options) = Range(data.City)
        /\ \A i, j \in DOMAIN city_options :
               i < j => StrLt(city_options[i], city_options[j])
        /\ (widget = None /\ city_options # <<>>) =>
               reference_city = IF default_city \in Range(city_options)
                                THEN default_city
                                ELSE city_options[1]
        /\ pc = "error" => city_options = <<>>
\* default_city is an option, and not the first one
C5_Witness ==
    /\ pc = "calc"
    /\ widget = None
    /\ Len(city_options) > 1
    /\ city_options[2] = default_city
    /\ reference_city = default_city

\* the rows of the sheet whose City is neither missing nor blank
NamedRows(sheet) ==
    SelectSeq(sheet, LAMBDA row : /\ row.City # NaNCell
                                  /\ Strip(AsStr(row.City)) # <<>>)
\* C6: the loaded table has no empty City: the rows of the sheet whose City
\* is missing or blank are dropped, every City kept is the trimmed,
\* title-cased text of the cell, and every City_Short is the part of City
\* before its first comma, or all of it.
C6_Loaded ==
    (cache # <<>>) =>
        LET named == NamedRows(source)
            table == cache[1]
        IN  /\ \A i \in DOMAIN table.City : table.City[i] # <<>>
            /\ table.City = [i \in 1..Len(named) |-> Title(Strip(AsStr(named[i].City)))]
            /\ \A i \in DOMAIN table.City :
                   LET city  == table.City[i]
                       short == table.City_Short[i]
                   IN  /\ Len(short) <= Len(city)
                       /\ short = SubSeq(city, 1, Len(short))
                       /\ 44 \notin Range(short)
                       /\ Len(short) < Len(city) => city[Len(short) + 1] = 44

\* the columns the newest call in the trail assigned, or none
ColumnsBefore ==
    IF trail = <<>> THEN <<NoColumn, NoColumn>>
    ELSE <<trail[Len(trail)].Sal_Diff, trail[Len(trail)].Col_Diff>>
\* C7: calculate_differences with a name of no row raises, with no other row
\* taken as reference; it leaves the difference columns as they were, and the
\* cycle builds no figure and shows none.
C7_ReferenceNotFound ==
    /\ Computed => Matches(data, reference_city) # {}
    /\ pc = "error" =>
           /\ Matches(data, reference_city) = {}
           /\ <<data.Sal_Diff, data.Col_Diff>> = ColumnsBefore
           /\ data.Salary = cache[1].Salary
           /\ data.COL = cache[1].COL
           /\ scatter_plot = Unset
           /\ page = [chart |-> Unset, exception |-> TRUE]
\* a call with a name of no row, after calls that assigned the columns
C7_Witness ==
    /\ pc = "error"
    /\ reference_city = Stranger
    /\ data.City # <<>>
    /\ trail # <<>>
    /\ data.Sal_Diff # NoColumn

\* C8: with a reference row of zero salary every row's Sal_Diff_% is NaN or an
\* infinity, and with one of zero cost of living every row's Col_Diff_% is:
\* none is 0 or any other finite value.
C8_ZeroReference ==
    Computed =>
        LET r == FirstNamed(reference_city)
        IN  /\ data.Salary[r] = 0 => \A i \in Rows : ~IsFinite(data.Sal_Diff[i])
            /\ data.COL[r] = 0 => \A i \in Rows : ~IsFinite(data.Col_Diff[i])
\* a reference of zero salary beside a row of another salary
C8_Witness ==
    /\ pc = "done"
    /\ data.Salary[FirstNamed(reference_city)] = 0
    /\ \E i \in Rows : IsInf(data.Sal_Diff[i])
    /\ IsNaN(data.Sal_Diff[FirstNamed(reference_city)])

\* x > 0 and finite
Positive(x) == IsFinite(x) /\ ~IsZero(x) /\ x.s = 0
\* all values of the column are the same, and their differences 0
NoSpread(col, diff) == \A i, j \in DOMAIN col : col[i] = col[j] /\ IsZero(diff[i])
\* C9: for a table whose rows all have the same cost of living, so that the
\* range of Col_Diff_% and its padding are 0, the figure's x-axis dtick is a
\* positive tick width, not range / 5 = 0; likewise the y-axis dtick when all
\* salaries are the same.
C9_TickSpacing ==
    Built =>
        /\ NoSpread(data.COL, data.Col_Diff) =>
               /\ IsZero(FSub(scatter_plot.xaxis.range[2], scatter_plot.xaxis.range[1]))
               /\ Positive(scatter_plot.xaxis.dtick)
        /\ NoSpread(data.Salary, data.Sal_Diff) =>
               /\ IsZero(FSub(scatter_plot.yaxis.range[2], scatter_plot.yaxis.range[1]))
               /\ Positive(scatter_plot.yaxis.dtick)

\* C10: for a table with at least one city, no run raises: whenever line 61
\* is reached, at the first run and after every selector change, the
\* reference is the City of a row, and the row taken is the first of them.
C10_ReferencePresent ==
    (cache # <<>> /\ cache[1].City # <<>>) =>
        /\ pc # "error"
        /\ pc \in {"calc", "plot", "show", "done"} =>
               /\ reference_city \in Range(data.City)
               /\ RefRow(data, reference_city) = FirstNamed(reference_city)
\* after a selector change, the reference found among the rows
C10_Witness ==
    /\ pc = "plot"
    /\ count.runs > 1
    /\ widget = reference_city
    /\ Matches(data, reference_city) # {}

====
